---- MODULE Spec2Model ----
(***************************************************************************)
(* Model of rapids_triton's Buffer<T> (memory/buffer.hpp): an ownership-   *)
(* polymorphic, placement-aware, stream-associated typed array, its        *)
(* constructors and destructor, set_stream, and the ranged copy between    *)
(* buffers.  The heap, the device streams and the copy/allocation          *)
(* primitives of memory/detail are modelled as far as Buffer uses them.    *)
(***************************************************************************)
EXTENDS Integers, Sequences, FiniteSets, TLC

\* ---- bounds of the model ------------------------------------------------
MaxBufs   == 2      \* Buffer objects alive at a time
MaxLen    == 2      \* largest element count of a buffer
MaxStream == 1      \* streams are 0..MaxStream
MaxDevice == 1      \* device ids are 0..MaxDevice
MaxOps    == 2      \* ranged copies called in one run of SpecStream
CopyCalls == 1      \* ranged copies called in one run of SpecCopy
SizeBits  == 3      \* width of size_type in the model (std::size_t narrowed)

Modulus   == 2 ^ SizeBits
Bufs      == 1 .. MaxBufs
Streams   == 0 .. MaxStream
Devices   == 0 .. MaxDevice
Sizes     == 0 .. MaxLen
Values    == {0, 1}
\* size_type arguments tried by the ranged copy: the offsets up to the
\* largest size and the largest value of the type
Offsets   == (0 .. MaxLen) \cup {Modulus - 1}

\* ---- placement primitives (memory/types.hpp) -----------------------------
HostMemory   == "Host"
DeviceMemory == "Device"
MemoryType   == {HostMemory, DeviceMemory}

\* ---- the heap ------------------------------------------------------------
\* Blocks 1 and 2 are memory of the caller (host and device); the others are
\* handed out by allocate, each once.  rel counts the releases of a block.
CallerHost == 1
CallerDev  == 2
MaxAllocs  == 2      \* blocks allocate hands out in one run
Blocks     == 1 .. (2 + MaxAllocs)
nullptr    == 0

Contents(n) == [1 .. n -> Values]
Zeros(n)    == [i \in 1 .. n |-> 0]
NoBlock     == [owner |-> "none", place |-> HostMemory, data |-> << >>, rel |-> 0]

VARIABLES
  gpu_build,   \* IS_GPU_BUILD of build_control.hpp
  bufs,        \* the Buffer objects: slot -> fields
  heap,        \* block -> owner, placement, contents, number of releases
  queue,       \* stream -> the copies enqueued on it and not yet executed
  nextOp,      \* identity of the next ranged copy (they are numbered as called)
  ub,          \* the run has executed undefined behaviour
  last         \* the operation that produced this state and its outcome

vars == << gpu_build, bufs, heap, queue, nextOp, ub, last >>

\* ---- Buffer fields (buffer.hpp 146-149) ----------------------------------
\* idx is data_.index(): 0 h_ptr, 1 d_ptr, 2 owned_h_ptr, 3 owned_d_ptr;
\* ptr is the pointer the active alternative holds (a block, or nullptr).
\* st tells whether the slot holds an object; a destroyed object leaves its
\* slot free for the next one.
NoBuf   == [st |-> "none", device_ |-> 0, idx |-> 0, ptr |-> nullptr, size_ |-> 0, stream_ |-> 0]

data_ptr == 0 .. 3
owning(idx) == idx >= 2

get_raw_ptr(b) == b.ptr

mem_type_idx(idx) == IF idx % 2 = 0 THEN HostMemory ELSE DeviceMemory
mem_type(b) == mem_type_idx(b.idx)

Live(i) == bufs[i].st = "live"
FreeSlots == {i \in Bufs : bufs[i].st = "none"}
NewSlot == CHOOSE i \in FreeSlots : \A j \in FreeSlots : i <= j
FreeBlocks == {k \in Blocks : heap[k].owner = "none"}
NewBlock == CHOOSE k \in FreeBlocks : \A j \in FreeBlocks : k <= j

\* The outcome of an operation: which one (op), the error it signalled (err),
\* the buffer it made, wrote or destroyed (a) and the one it read (b), whether
\* it called the copy primitive (prim), the copies that were pending on the
\* stream a left (pend), the arguments (args; for the destructor the pointer the
\* buffer held) and a's stream on entry (old).
NoArgs == [ptr |-> nullptr, size |-> 0, mt |-> HostMemory, device |-> 0, stream |-> 0,
           dst_begin |-> 0, src_begin |-> 0, src_end |-> 0]
Outcome(op, err, a, b, prim, pend, args) ==
  [op |-> op, err |-> err, a |-> a, b |-> b, prim |-> prim, pend |-> pend, args |-> args,
   old |-> 0]

\* ---- allocation (buffer.hpp 174-190, detail/allocate.hpp) ----------------
\* dev_allocate: fresh device memory, contents indeterminate (fill)
dev_allocate(h, size, fill) ==
  [h EXCEPT ![NewBlock] = [owner |-> "buffer", place |-> DeviceMemory, data |-> fill, rel |-> 0]]

\* std::make_unique<T[]>(size): fresh value-initialised host array
make_unique(h, size) ==
  [h EXCEPT ![NewBlock] = [owner |-> "buffer", place |-> HostMemory, data |-> Zeros(size), rel |-> 0]]

\* a host array whatever the placement asked for
allocate_host(h, size, memory_type, fill) ==
  [err |-> "none", idx |-> 2, ptr |-> NewBlock, heap |-> make_unique(h, size)]

\* allocate(size, memory_type): the variant it returns and the heap after it
allocate(h, size, memory_type, fill) ==
  IF memory_type = DeviceMemory
  THEN IF gpu_build
       THEN [err |-> "none", idx |-> 3, ptr |-> NewBlock, heap |-> dev_allocate(h, size, fill)]
       ELSE [err |-> "Internal", idx |-> 0, ptr |-> nullptr, heap |-> h]
  ELSE [err |-> "none", idx |-> 2, ptr |-> NewBlock, heap |-> make_unique(h, size)]

\* the fills allocate can find in fresh memory: a host array is
\* value-initialised, device memory holds anything
Fills(size, memory_type) ==
  IF memory_type = DeviceMemory /\ gpu_build THEN Contents(size) ELSE {Zeros(size)}

\* the deleter of an owning alternative; a null handle releases nothing
release(h, idx, ptr) ==
  IF owning(idx) /\ ptr # nullptr
  THEN [h EXCEPT ![ptr].rel = @ + 1, ![ptr].data = << >>]
  ELSE h

\* the moved-from variant keeps its pointer
moved_from_keeps(b) == b

\* std::move(other.data_): what the moved-from variant holds afterwards; a
\* unique_ptr is left null, a raw pointer is left as it was
moved_from(b) == [b EXCEPT !.ptr = IF owning(b.idx) THEN nullptr ELSE @]

\* ---- copy primitive (detail/copy.hpp) and the streams ---------------------
\* A copy of len elements from src + soff to dst + doff.  pre names the copies
\* that were pending on the stream the destination left for this one.
CopyOp(id, dst, doff, src, soff, len, pre) ==
  [id |-> id, dst |-> dst, doff |-> doff, src |-> src, soff |-> soff, len |-> len, pre |-> pre]

Usable(h, p) == p # nullptr /\ h[p].owner # "none" /\ h[p].rel = 0

\* the copy is within both blocks and its ranges do not overlap
InBounds(h, op) ==
  /\ Usable(h, op.dst) /\ Usable(h, op.src)
  /\ op.soff + op.len <= Len(h[op.src].data)
  /\ op.doff + op.len <= Len(h[op.dst].data)
  /\ op.dst = op.src => (op.soff + op.len <= op.doff \/ op.doff + op.len <= op.soff)

\* executing a copy: the elements move, or the access is undefined
ExecOp(st, op) ==
  IF st.ub \/ op.len = 0 THEN st
  ELSE IF ~InBounds(st.heap, op) THEN [st EXCEPT !.ub = TRUE]
  ELSE [st EXCEPT !.heap[op.dst].data =
          [i \in 1 .. Len(@) |->
             IF op.doff < i /\ i <= op.doff + op.len
             THEN st.heap[op.src].data[op.soff + (i - op.doff)]
             ELSE @[i]]]

\* cudaStreamSynchronize: everything enqueued on the stream executes, in order
RECURSIVE Drain(_, _)
Drain(st, ops) ==
  IF ops = << >> THEN st ELSE Drain(ExecOp(st, Head(ops)), Tail(ops))

Ids(ops) == {ops[k].id : k \in 1 .. Len(ops)}
Pending == UNION {Ids(queue[s]) : s \in Streams}

Touches(mt1, mt2) == mt1 = DeviceMemory \/ mt2 = DeviceMemory

\* detail::copy(dst, src, len, stream, dst_type, src_type): host to host is
\* done at once, anything touching device memory is enqueued on the stream
detail_copy(st, op, stream, dst_type, src_type) ==
  IF op.len = 0 THEN st
  ELSE IF Touches(dst_type, src_type)
  THEN IF gpu_build
       THEN [st EXCEPT !.queue[stream] = Append(@, op)]
       ELSE [st EXCEPT !.err = "Internal"]
  ELSE ExecOp(st, op)

\* detail::copy(dst, src, len, dst_type, src_type), the call without a stream:
\* the copy is complete when the call returns
detail_copy_sync(st, op, dst_type, src_type) ==
  IF op.len = 0 THEN st
  ELSE IF Touches(dst_type, src_type) /\ ~gpu_build
  THEN [st EXCEPT !.err = "Internal"]
  ELSE ExecOp(st, op)

\* the heap, the streams and the error an operation has produced so far
Now == [heap |-> heap, queue |-> queue, nextOp |-> nextOp, ub |-> ub, err |-> "none"]

\* ---- Buffer::copy (private, buffer.hpp 195-204) ---------------------------
\* stream is a parameter the body never uses
Buffer_copy(st, dst_idx, dst_ptr, src_idx, src_ptr, len, stream) ==
  detail_copy_sync(st, CopyOp(0, dst_ptr, 0, src_ptr, 0, len, {}),
                   mem_type_idx(dst_idx), mem_type_idx(src_idx))

Init ==
  /\ gpu_build \in BOOLEAN
  /\ bufs = [i \in Bufs |-> NoBuf]
  /\ heap = [k \in Blocks |->
               IF k = CallerHost
               THEN [owner |-> "caller", place |-> HostMemory,
                     data |-> [i \in 1 .. MaxLen |-> i % 2], rel |-> 0]
               ELSE IF k = CallerDev
               THEN [owner |-> "caller", place |-> DeviceMemory,
                     data |-> [i \in 1 .. MaxLen |-> (i + 1) % 2], rel |-> 0]
               ELSE NoBlock]
  /\ queue = [s \in Streams |-> << >>]
  /\ nextOp = 1
  /\ ub = FALSE
  /\ last = Outcome("init", "none", 0, 0, FALSE, {}, NoArgs)

NewBuf(device, idx, ptr, size, stream) ==
  [st |-> "live", device_ |-> device, idx |-> idx, ptr |-> ptr, size_ |-> size, stream_ |-> stream]

\* ---- constructors and destructor -----------------------------------------
\* Buffer() noexcept
Buffer_default ==
  /\ ~ub /\ FreeSlots # {}
  /\ bufs' = [bufs EXCEPT ![NewSlot] = NewBuf(0, 0, nullptr, 0, 0)]
  /\ last' = Outcome("default", "none", NewSlot, 0, FALSE, {}, NoArgs)
  /\ UNCHANGED << gpu_build, heap, queue, nextOp, ub >>

\* Buffer(size, memory_type, device, stream); fill is what the fresh memory
\* happens to hold
Buffer_size(size, memory_type, device, stream, fill) ==
  /\ ~ub /\ FreeSlots # {} /\ FreeBlocks # {}
  /\ LET r == allocate(heap, size, memory_type, fill) IN
       /\ heap' = r.heap
       /\ bufs' = IF r.err = "none"
                  THEN [bufs EXCEPT ![NewSlot] = NewBuf(device, r.idx, r.ptr, size, stream)]
                  ELSE bufs
       /\ last' = Outcome("size", r.err, IF r.err = "none" THEN NewSlot ELSE 0, 0, FALSE, {},
                          [NoArgs EXCEPT !.size = size, !.mt = memory_type,
                                         !.device = device, !.stream = stream])
  /\ UNCHANGED << gpu_build, queue, nextOp, ub >>

\* the pointer is taken into an owning alternative
ptr_alternatives_owning(memory_type) == {2, 3}

\* data_{input_data} never reads memory_type, and both non-owning alternatives
\* of data_ptr are a T*: the arguments do not decide which of the two the
\* variant takes
ptr_alternatives(memory_type) == {0, 1}

\* Buffer(input_data, size, memory_type, device, stream)
Buffer_ptr(input_data, size, memory_type, device, stream) ==
  /\ ~ub /\ FreeSlots # {}
  /\ \E idx \in ptr_alternatives(memory_type) :
       bufs' = [bufs EXCEPT ![NewSlot] = NewBuf(device, idx, input_data, size, stream)]
  /\ last' = Outcome("ptr", "none", NewSlot, 0, FALSE, {},
                     [NoArgs EXCEPT !.ptr = input_data, !.size = size, !.mt = memory_type,
                                    !.device = device, !.stream = stream])
  /\ UNCHANGED << gpu_build, heap, queue, nextOp, ub >>

\* the lambda without the release of the local result when the copy throws
relocate_leaks(other, memory_type, fill, alloc_ok, copy_ok) ==
  LET r == allocate(heap, other.size_, memory_type, fill)
      c == Buffer_copy([Now EXCEPT !.heap = r.heap], r.idx, r.ptr,
                       other.idx, other.ptr, other.size_, other.stream_)
      cuda == ~copy_ok /\ gpu_build /\ other.size_ > 0
              /\ Touches(mem_type_idx(r.idx), mem_type(other))
  IN IF r.err # "none" THEN [Now EXCEPT !.err = r.err] @@ [idx |-> 0, ptr |-> nullptr, prim |-> FALSE]
     ELSE IF ~alloc_ok
     THEN [Now EXCEPT !.err = "bad_alloc"] @@ [idx |-> 0, ptr |-> nullptr, prim |-> FALSE]
     ELSE IF cuda
     THEN [Now EXCEPT !.heap = r.heap, !.err = "cuda"] @@ [idx |-> 0, ptr |-> nullptr, prim |-> TRUE]
     ELSE IF c.err # "none"
     THEN c @@ [idx |-> 0, ptr |-> nullptr, prim |-> TRUE]
     ELSE c @@ [idx |-> r.idx, ptr |-> r.ptr, prim |-> TRUE]

\* the lambda of the relocating constructors: allocate, then Buffer::copy; if
\* the copy throws, the local result is destroyed on the way out. alloc_ok and
\* copy_ok say whether the allocator and the device runtime do their work.
relocate_with(other, memory_type, fill, alloc_ok, copy_ok) ==
  LET r == allocate(heap, other.size_, memory_type, fill)
      c == Buffer_copy([Now EXCEPT !.heap = r.heap], r.idx, r.ptr,
                       other.idx, other.ptr, other.size_, other.stream_)
      cuda == ~copy_ok /\ gpu_build /\ other.size_ > 0
              /\ Touches(mem_type_idx(r.idx), mem_type(other))
  IN IF r.err # "none" THEN [Now EXCEPT !.err = r.err] @@ [idx |-> 0, ptr |-> nullptr, prim |-> FALSE]
     ELSE IF ~alloc_ok
     THEN [Now EXCEPT !.err = "bad_alloc"] @@ [idx |-> 0, ptr |-> nullptr, prim |-> FALSE]
     ELSE IF cuda
     THEN [Now EXCEPT !.heap = release(r.heap, r.idx, r.ptr), !.err = "cuda"]
            @@ [idx |-> 0, ptr |-> nullptr, prim |-> TRUE]
     ELSE IF c.err # "none"
     THEN [c EXCEPT !.heap = release(c.heap, r.idx, r.ptr)] @@ [idx |-> 0, ptr |-> nullptr, prim |-> TRUE]
     ELSE c @@ [idx |-> r.idx, ptr |-> r.ptr, prim |-> TRUE]

relocate(other, memory_type, fill) == relocate_with(other, memory_type, fill, TRUE, TRUE)

\* Buffer(other, memory_type, device): stream_{other.stream_}
RelocatingWith(op, o, memory_type, device, alloc_ok, copy_ok) ==
  /\ ~ub /\ FreeSlots # {} /\ FreeBlocks # {} /\ Live(o)
  /\ \E fill \in Fills(bufs[o].size_, memory_type) :
       LET other == bufs[o]
           r == relocate_with(other, memory_type, fill, alloc_ok, copy_ok) IN
       /\ heap' = r.heap
       /\ ub' = r.ub
       /\ bufs' = IF r.err = "none"
                  THEN [bufs EXCEPT ![NewSlot] =
                          NewBuf(device, r.idx, r.ptr, other.size_, other.stream_)]
                  ELSE bufs
       /\ last' = Outcome(op, r.err, IF r.err = "none" THEN NewSlot ELSE 0, o, r.prim, {},
                          [NoArgs EXCEPT !.mt = memory_type, !.device = device])
  /\ UNCHANGED << gpu_build, queue, nextOp >>

Relocating(op, o, memory_type, device) == RelocatingWith(op, o, memory_type, device, TRUE, TRUE)

Buffer_reloc_env(o, memory_type, device, alloc_ok, copy_ok) ==
  RelocatingWith("reloc", o, memory_type, device, alloc_ok, copy_ok)

Buffer_reloc(o, memory_type, device) == Buffer_reloc_env(o, memory_type, device, TRUE, TRUE)

\* Buffer(other): Buffer(other, other.mem_type(), other.device(), other.stream())
Buffer_copy_ctor(o) ==
  /\ Live(o)
  /\ Relocating("copyctor", o, mem_type(bufs[o]), bufs[o].device_)

\* the transfer of data_ without a copy; size_ of other is left as it was
Transfer(op, o, memory_type) ==
  /\ bufs' = [bufs EXCEPT ![NewSlot] = [bufs[o] EXCEPT !.st = "live"],
                          ![o] = moved_from(@)]
  /\ last' = Outcome(op, "none", NewSlot, o, FALSE, {}, [NoArgs EXCEPT !.mt = memory_type])
  /\ UNCHANGED << gpu_build, heap, queue, nextOp, ub >>

\* Buffer(Buffer&& other, memory_type)
Buffer_move_mt_env(o, memory_type, alloc_ok, copy_ok) ==
  /\ ~ub /\ FreeSlots # {} /\ Live(o)
  /\ IF memory_type = mem_type(bufs[o])
     THEN Transfer("move_mt", o, memory_type)
     ELSE RelocatingWith("move_mt", o, memory_type, bufs[o].device_, alloc_ok, copy_ok)

Buffer_move_mt(o, memory_type) == Buffer_move_mt_env(o, memory_type, TRUE, TRUE)

\* Buffer(Buffer&& other) noexcept
Buffer_move(o) ==
  /\ ~ub /\ FreeSlots # {} /\ Live(o)
  /\ Transfer("move", o, mem_type(bufs[o]))

\* ~Buffer() = default: the active alternative of data_ is destroyed
Buffer_dtor(i) ==
  /\ ~ub /\ Live(i)
  /\ heap' = release(heap, bufs[i].idx, bufs[i].ptr)
  /\ bufs' = [bufs EXCEPT ![i] = NoBuf]
  /\ last' = Outcome("dtor", "none", i, 0, FALSE, {}, [NoArgs EXCEPT !.ptr = get_raw_ptr(bufs[i])])
  /\ UNCHANGED << gpu_build, queue, nextOp, ub >>

\* ---- set_stream (buffer.hpp 138-143) --------------------------------------
\* the stream state after cudaStreamSynchronize(stream)
cudaStreamSynchronize(st, stream) ==
  [Drain(st, st.queue[stream]) EXCEPT !.queue[stream] = << >>]

\* stream_ is reassigned and the old stream is not waited for
set_stream_unsynced(b, st, new_stream) ==
  [buf |-> [b EXCEPT !.stream_ = new_stream], st |-> st]

\* set_stream as a step on (buffer, stream state): synchronize stream_ in a
\* GPU build, then stream_ = new_stream
set_stream_on(b, st, new_stream) ==
  [buf |-> [b EXCEPT !.stream_ = new_stream],
   st  |-> IF gpu_build THEN cudaStreamSynchronize(st, b.stream_) ELSE st]

set_stream(i, new_stream) ==
  /\ ~ub /\ Live(i)
  /\ LET r == set_stream_on(bufs[i], Now, new_stream) IN
       /\ bufs' = [bufs EXCEPT ![i] = r.buf]
       /\ heap' = r.st.heap
       /\ queue' = r.st.queue
       /\ ub' = r.st.ub
       /\ last' = [Outcome("set_stream", "none", i, 0, FALSE, Ids(queue[bufs[i].stream_]),
                           [NoArgs EXCEPT !.stream = new_stream])
                     EXCEPT !.old = bufs[i].stream_]
  /\ UNCHANGED << gpu_build, nextOp >>

\* line 140 when cudaStreamSynchronize returns an error: cuda_check throws
\* and line 142 is not reached
set_stream_failed(b, new_stream) == b

set_stream_throws(i, new_stream) ==
  /\ ~ub /\ Live(i) /\ gpu_build
  /\ bufs' = [bufs EXCEPT ![i] = set_stream_failed(@, new_stream)]
  /\ last' = [Outcome("set_stream", "cuda", i, 0, FALSE, {},
                      [NoArgs EXCEPT !.stream = new_stream])
                EXCEPT !.old = bufs[i].stream_]
  /\ UNCHANGED << gpu_build, heap, queue, nextOp, ub >>

\* set_stream with the answer of the device runtime as an input
set_stream_env(i, new_stream, sync_ok) ==
  IF sync_ok THEN set_stream(i, new_stream) ELSE set_stream_throws(i, new_stream)

\* ---- ranged copy (buffer.hpp 225-241) -------------------------------------
\* size_type arithmetic
Sub(x, y) == (x - y) % Modulus

\* the test with a destination that must have room left over
bad_copy_ge(len, src_end, src_size, dst_size, dst_begin) ==
  len < 0 \/ src_end > src_size \/ len >= Sub(dst_size, dst_begin)

\* the test of line 232 on size_type values; len < 0 is never true of one
bad_copy(len, src_end, src_size, dst_size, dst_begin) ==
  len < 0 \/ src_end > src_size \/ len > Sub(dst_size, dst_begin)

\* the copy goes ahead without adopting the source's stream
reconcile_skip(dst, src, st) == [buf |-> dst, st |-> st]

\* lines 228-230: the destination adopts the source's stream
reconcile(dst, src, st) ==
  IF dst.stream_ # src.stream_ THEN set_stream_on(dst, st, src.stream_)
  ELSE [buf |-> dst, st |-> st]

\* lines 225-241 as a function of the state: what the call leaves behind
copy_call(d, s, dst_begin, src_begin, src_end) ==
  LET src == bufs[s]
      r   == reconcile(bufs[d], src, Now)
      dst == r.buf
      \* the copies pending on the stream the destination leaves
      old_pending == IF bufs[d].stream_ # src.stream_ THEN Ids(queue[bufs[d].stream_]) ELSE {}
      len == Sub(src_end, src_begin)
      bad == bad_copy(len, src_end, src.size_, dst.size_, dst_begin)
      op  == CopyOp(nextOp, get_raw_ptr(dst), dst_begin, get_raw_ptr(src), src_begin, len,
                    old_pending)
      c   == IF bad THEN [r.st EXCEPT !.err = "Internal"]
             ELSE detail_copy(r.st, op, dst.stream_, mem_type(dst), mem_type(src))
  IN [bufs |-> [bufs EXCEPT ![d] = dst], heap |-> c.heap, queue |-> c.queue, ub |-> c.ub,
      err |-> c.err, prim |-> ~bad, pend |-> old_pending]

\* a call of the five-parameter copy, made under the name op with the
\* arguments args of the caller
Ranged(op, d, s, dst_begin, src_begin, src_end, args) ==
  /\ ~ub /\ Live(d) /\ Live(s)
  /\ LET r == copy_call(d, s, dst_begin, src_begin, src_end) IN
       /\ bufs' = r.bufs
       /\ heap' = r.heap
       /\ queue' = r.queue
       /\ nextOp' = nextOp + 1
       /\ ub' = r.ub
       /\ last' = [Outcome(op, r.err, d, s, r.prim, r.pend, args)
                     EXCEPT !.old = bufs[d].stream_]
  /\ UNCHANGED gpu_build

copy(d, s, dst_begin, src_begin, src_end) ==
  Ranged("copy", d, s, dst_begin, src_begin, src_end,
         [NoArgs EXCEPT !.dst_begin = dst_begin, !.src_begin = src_begin, !.src_end = src_end])

\* ---- the shorter overloads (buffer.hpp 243-257) ---------------------------
\* dst.begin(), src.begin(): Buffer declares no begin(); the offset of the
\* first element
begin(b) == 0

Add(x, y) == (x + y) % Modulus

\* copy(dst, src), lines 243-246
copy_dst_src(d, s) ==
  /\ Live(d) /\ Live(s)
  /\ Ranged("copy_dst_src", d, s, begin(bufs[d]), begin(bufs[s]),
            Add(begin(bufs[s]), bufs[s].size_), NoArgs)

\* copy(dst, src, dst_begin), lines 248-251
copy_dst_begin(d, s, dst_begin) ==
  /\ Live(d) /\ Live(s)
  /\ Ranged("copy_dst_begin", d, s, dst_begin, begin(bufs[s]),
            Add(begin(bufs[s]), bufs[s].size_), [NoArgs EXCEPT !.dst_begin = dst_begin])

\* copy(dst, src, src_begin, src_end), lines 253-257: the call passes
\* dst_begin, which this overload does not declare, then src.begin() and
\* src.begin() + src_end; src_begin is not used
copy_src_range(d, s, src_begin, src_end) ==
  /\ Live(d) /\ Live(s)
  /\ \E dst_begin \in Offsets :
       Ranged("copy_src_range", d, s, dst_begin, begin(bufs[s]),
              Add(begin(bufs[s]), src_end),
              [NoArgs EXCEPT !.src_begin = src_begin, !.src_end = src_end])

\* ---- Batch::get_input (batch.hpp 53-86) -----------------------------------
\* sizeof(T) of the element type the tensor is read as
sizeof_T == 2

\* The batch was constructed on stream_. The collector reports where it has
\* put the data (raw_buffer, reported_bytes) and in which memory, on which
\* device. The buffer is made by Buffer(pointer, reported_bytes,
\* reported_memory_type, stream_): four arguments, so stream_ is taken for the
\* device and the stream is the default one. The location is tested afterwards.
Batch_get_input(stream_, memory_type, device_id, raw_buffer, reported_bytes, reported_memory_type, reported_device_id) ==
  /\ ~ub /\ FreeSlots # {}
  /\ \E idx \in ptr_alternatives(reported_memory_type) :
       LET buffer == NewBuf(stream_, idx, raw_buffer, reported_bytes, 0)
           wrong  == reported_memory_type # memory_type \/ reported_device_id # device_id
       IN /\ bufs' = IF wrong THEN bufs ELSE [bufs EXCEPT ![NewSlot] = buffer]
          /\ last' = Outcome("get_input", IF wrong THEN "Internal" ELSE "none",
                             IF wrong THEN 0 ELSE NewSlot, 0, FALSE, {},
                             [NoArgs EXCEPT !.ptr = raw_buffer, !.size = reported_bytes,
                                            !.mt = reported_memory_type,
                                            !.device = reported_device_id,
                                            !.stream = stream_]
                               @@ [req_mt |-> memory_type, req_device |-> device_id])
  /\ UNCHANGED << gpu_build, heap, queue, nextOp, ub >>

\* ---- the device -----------------------------------------------------------
\* a stream executes the copy at its head
StreamExec(stream) ==
  /\ ~ub /\ queue[stream] # << >>
  /\ LET r == ExecOp(Now, Head(queue[stream])) IN
       /\ heap' = r.heap
       /\ ub' = r.ub
  /\ queue' = [queue EXCEPT ![stream] = Tail(@)]
  /\ last' = Outcome("exec", "none", 0, 0, FALSE, {}, NoArgs)
  /\ UNCHANGED << gpu_build, bufs, nextOp >>

\* ---- the callers ----------------------------------------------------------
\* A caller passes null with size 0, or one of its own blocks with the size
\* the block has.
CallerPtrs == {nullptr, CallerHost, CallerDev}

Construct ==
  \/ Buffer_default
  \/ \E size \in Sizes, mt \in MemoryType, dev \in Devices, s \in Streams :
       \E fill \in Fills(size, mt) : Buffer_size(size, mt, dev, s, fill)
  \/ \E p \in CallerPtrs, mt \in MemoryType, dev \in Devices, s \in Streams :
       Buffer_ptr(p, IF p = nullptr THEN 0 ELSE MaxLen, mt, dev, s)

Next ==
  \/ Construct
  \/ \E o \in Bufs, mt \in MemoryType, dev \in Devices : Buffer_reloc(o, mt, dev)
  \/ \E o \in Bufs : Buffer_copy_ctor(o)
  \/ \E o \in Bufs, mt \in MemoryType : Buffer_move_mt(o, mt)
  \/ \E o \in Bufs : Buffer_move(o)
  \/ \E i \in Bufs : Buffer_dtor(i)

Spec == Init /\ [][Next]_vars

\* Buffers on device 0, owning or over a whole block of the caller, copied
\* between and moved from stream to stream
NextCopy ==
  \/ \E size \in Sizes, mt \in MemoryType, s \in Streams :
       Buffer_size(size, mt, 0, s, Zeros(size))
  \/ \E p \in {CallerHost, CallerDev}, s \in Streams :
       Buffer_ptr(p, MaxLen, heap[p].place, 0, s)
  \/ \E d \in Bufs, s \in Bufs, db \in Offsets, sb \in Offsets, se \in Offsets :
       /\ nextOp <= CopyCalls
       /\ copy(d, s, db, sb, se)
  \/ \E s \in Streams : StreamExec(s)

SpecCopy == Init /\ [][NextCopy]_vars

\* Buffers on device 0 in a GPU or CPU build, copied whole or by one element,
\* moved from stream to stream while the device works through its streams
NextStream ==
  \/ \E mt \in MemoryType, s \in Streams : Buffer_size(MaxLen, mt, 0, s, Zeros(MaxLen))
  \/ \E p \in {CallerHost, CallerDev}, s \in Streams :
       Buffer_ptr(p, MaxLen, heap[p].place, 0, s)
  \/ \E d \in Bufs, s \in Bufs, db \in {0, 1}, se \in {1, MaxLen} :
       /\ nextOp <= MaxOps
       /\ copy(d, s, db, 0, se)
  \/ \E i \in Bufs, s \in Streams : set_stream(i, s)
  \/ \E s \in Streams : StreamExec(s)

SpecStream == Init /\ [][NextStream]_vars
\* The buffers of SpecCopy, copied by the shorter overloads
NextOverload ==
  \/ \E size \in Sizes, mt \in MemoryType, s \in Streams :
       Buffer_size(size, mt, 0, s, Zeros(size))
  \/ \E p \in {CallerHost, CallerDev}, s \in Streams :
       Buffer_ptr(p, MaxLen, heap[p].place, 0, s)
  \/ \E d \in Bufs, s \in Bufs : nextOp <= CopyCalls /\ copy_dst_src(d, s)
  \/ \E d \in Bufs, s \in Bufs, db \in Offsets :
       nextOp <= CopyCalls /\ copy_dst_begin(d, s, db)
  \/ \E d \in Bufs, s \in Bufs, sb \in Offsets, se \in Offsets :
       nextOp <= CopyCalls /\ copy_src_range(d, s, sb, se)
  \/ \E s \in Streams : StreamExec(s)

SpecOverload == Init /\ [][NextOverload]_vars

\* Buffers on device 0 relocated, moved, put on other streams and destroyed
\* while the allocator and the device runtime may fail
NextFail ==
  \/ \E size \in Sizes, mt \in MemoryType, s \in Streams :
       \E fill \in Fills(size, mt) : Buffer_size(size, mt, 0, s, fill)
  \/ \E p \in {CallerHost, CallerDev}, s \in Streams :
       Buffer_ptr(p, MaxLen, heap[p].place, 0, s)
  \/ \E o \in Bufs, mt \in MemoryType, alloc_ok \in BOOLEAN, copy_ok \in BOOLEAN :
       Buffer_reloc_env(o, mt, 0, alloc_ok, copy_ok)
  \/ \E o \in Bufs, mt \in MemoryType, alloc_ok \in BOOLEAN, copy_ok \in BOOLEAN :
       Buffer_move_mt_env(o, mt, alloc_ok, copy_ok)
  \/ \E i \in Bufs, s \in Streams, sync_ok \in BOOLEAN : set_stream_env(i, s, sync_ok)
  \/ \E i \in Bufs : Buffer_dtor(i)

SpecFail == Init /\ [][NextFail]_vars

\* Tensors read from a batch on any stream, the collector reporting any
\* location and up to MaxLen elements in a block of the server, and destroyed
NextBatch ==
  \/ \E s \in Streams, mt \in MemoryType, dev \in Devices, p \in {CallerHost, CallerDev},
        n \in Sizes, rmt \in MemoryType, rdev \in Devices :
       Batch_get_input(s, mt, dev, p, sizeof_T * n, rmt, rdev)
  \/ \E i \in Bufs : Buffer_dtor(i)

SpecBatch == Init /\ [][NextBatch]_vars

\* The round trip of spec 5: a host buffer over the caller's block in slot 1
\* is copied whole to a Device buffer in slot 2, gives way to an owning Host
\* buffer of the same size, and the Device buffer is copied whole into that
HostToDevice ==
  /\ nextOp = 1 /\ Live(1) /\ Live(2)
  /\ bufs[1].idx = 0 /\ bufs[1].ptr = CallerHost
  /\ bufs[2].idx = 3 /\ bufs[2].size_ = bufs[1].size_
  /\ copy(2, 1, 0, 0, bufs[1].size_)

DeviceToHost ==
  /\ nextOp = 2 /\ Live(1) /\ Live(2)
  /\ bufs[1].idx = 2 /\ bufs[2].idx = 3 /\ bufs[1].size_ = bufs[2].size_
  /\ copy(1, 2, 0, 0, bufs[2].size_)

NextRound ==
  \/ \E n \in Sizes, s \in Streams : Buffer_ptr(CallerHost, n, HostMemory, 0, s)
  \/ \E n \in Sizes, mt \in MemoryType, s \in Streams :
       \E fill \in Fills(n, mt) : Buffer_size(n, mt, 0, s, fill)
  \/ \E i \in Bufs : ~owning(bufs[i].idx) /\ Buffer_dtor(i)
  \/ HostToDevice
  \/ DeviceToHost
  \/ \E i \in Bufs, s \in Streams : set_stream(i, s)
  \/ \E s \in Streams : StreamExec(s)

SpecRound == Init /\ [][NextRound]_vars

\* ---- the claims -----------------------------------------------------------
Made == bufs[last.a]
Read == bufs[last.b]

\* C1: a ranged copy whose offsets are outside the contract (src_end <
\* src_begin, src_end > src.size(), or more elements than dst has room for
\* after dst_begin) signals the Internal error and never reaches the copy
\* primitive.
BadGeometry ==
  \/ last.args.src_end < last.args.src_begin
  \/ last.args.src_end > Read.size_
  \/ last.args.src_end - last.args.src_begin > Made.size_ - last.args.dst_begin

C1_BadCopyRejected ==
  (last.op = "copy" /\ BadGeometry) => (last.err = "Internal" /\ ~last.prim)

\* C2: a ranged copy that signals the Internal error for its geometry leaves
\* dst as it was: fields (size, placement, pointer, stream) and contents.
C2_FailedCopyLeavesDst ==
  [][(last'.op = "copy" /\ last'.err = "Internal" /\ ~last'.prim)
       => /\ bufs'[last'.a] = bufs[last'.a]
          /\ heap' = heap]_vars

\* C3: a ranged copy between buffers on different streams leaves dst on the
\* source's stream, enqueues its copy on that stream only, and nothing that
\* was pending on the stream dst left is pending any more: not right after the
\* call, and not while the new copy waits to execute.
C3_CopyAfterOldStream ==
  /\ (last.op = "copy" /\ last.old # Read.stream_)
       => /\ Made.stream_ = Read.stream_
          /\ last.pend \cap Pending = {}
  /\ last.op = "copy"
       => \A s \in Streams : (nextOp - 1) \in Ids(queue[s]) => s = Read.stream_
  /\ \A s \in Streams : \A k \in 1 .. Len(queue[s]) : queue[s][k].pre \cap Pending = {}

C3_Witness ==
  /\ last.op = "copy" /\ last.err = "none" /\ last.old # Read.stream_
  /\ last.pend # {}
  /\ (nextOp - 1) \in Ids(queue[Read.stream_])

\* C4: once set_stream has given a buffer a different stream, nothing that was
\* pending on the stream it left is pending any more.
C4_SetStreamSynchronizes ==
  (last.op = "set_stream" /\ Made.stream_ # last.old) => last.pend \cap Pending = {}

C4_Witness ==
  /\ last.op = "set_stream" /\ Made.stream_ # last.old
  /\ Made.stream_ = last.args.stream
  /\ last.pend # {}

\* C5: a block a buffer allocated is released at most once; while it is not
\* released exactly one live buffer owns it, and once released none does. So
\* when every buffer is destroyed every such block has been released once.
Owners(k) == {i \in Bufs : Live(i) /\ owning(bufs[i].idx) /\ bufs[i].ptr = k}

C5_ReleasedExactlyOnce ==
  \A k \in Blocks : heap[k].owner = "buffer" =>
    /\ heap[k].rel <= 1
    /\ heap[k].rel = 0 => Cardinality(Owners(k)) = 1
    /\ heap[k].rel = 1 => Owners(k) = {}

C5_Witness ==
  /\ last.op = "dtor" /\ \A i \in Bufs : ~Live(i)
  /\ \E k \in Blocks : heap[k].owner = "buffer" /\ heap[k].rel = 1
  /\ \A k \in Blocks : heap[k].owner = "buffer" => heap[k].rel = 1

\* C6: memory of the caller is never released, whatever is done with the
\* buffers constructed over it.
C6_CallerMemoryKept ==
  \A k \in Blocks : heap[k].owner = "caller" => heap[k].rel = 0

C6_Witness ==
  /\ \A i \in Bufs : ~Live(i)
  /\ last.op = "dtor" /\ last.args.ptr \in {CallerHost, CallerDev}
  /\ \A k \in Blocks : heap[k].owner # "buffer"
  /\ heap[last.args.ptr].rel = 0

\* C7: the buffer made from (pointer, size, placement, device, stream) reports
\* the placement, pointer, size, device and stream it was given.
C7_PtrBufferReportsArguments ==
  last.op = "ptr" =>
    /\ mem_type(Made) = last.args.mt
    /\ ~owning(Made.idx)
    /\ get_raw_ptr(Made) = last.args.ptr
    /\ Made.size_ = last.args.size
    /\ Made.device_ = last.args.device
    /\ Made.stream_ = last.args.stream

\* C8: Buffer(size, placement, device, stream) succeeds for every placement the
\* build has, and the buffer is owning and reports the size, placement, device
\* and stream it was given.
C8_SizedBufferReportsArguments ==
  last.op = "size" =>
    /\ last.err = "none" <=> (last.args.mt = HostMemory \/ gpu_build)
    /\ last.err = "none" =>
         /\ owning(Made.idx)
         /\ Made.size_ = last.args.size
         /\ mem_type(Made) = last.args.mt
         /\ Made.device_ = last.args.device
         /\ Made.stream_ = last.args.stream

C8_Witness ==
  /\ last.op = "size" /\ last.err = "none"
  /\ last.args.mt = DeviceMemory /\ last.args.size = MaxLen
  /\ last.args.device # 0 /\ last.args.stream # 0

\* the first n elements behind a pointer
Elems(h, p, n) == [i \in 1 .. n |-> h[p].data[i]]

\* C9: copy-construction from any buffer b that signals no error gives an
\* owning buffer of b's size and placement, with b's contents behind a pointer
\* of its own, and leaves b as it was.
C9_CopyConstructed ==
  [][(last'.op = "copyctor" /\ last'.err = "none")
       => LET b == bufs[last'.b]
              new == bufs'[last'.a]
          IN /\ ~ub'
             /\ owning(new.idx)
             /\ new.size_ = b.size_
             /\ mem_type(new) = mem_type(b)
             /\ new.ptr # b.ptr
             /\ b.size_ > 0 => /\ Usable(heap, b.ptr)
                               /\ Elems(heap', new.ptr, b.size_) = Elems(heap, b.ptr, b.size_)
             /\ bufs'[last'.b] = b
             /\ b.ptr # nullptr => heap'[b.ptr] = heap[b.ptr]]_vars

\* C10: move-construction without a target placement, or to the placement
\* the source has, gives the new buffer the source's pointer, size, device and
\* stream without a copy, and leaves the source empty: size 0 and no pointer
\* to the storage.
SamePlacementMove ==
  \/ last'.op = "move"
  \/ last'.op = "move_mt" /\ last'.args.mt = mem_type(bufs[last'.b])

C10_MoveTransfers ==
  [][SamePlacementMove
       => LET src == bufs[last'.b]
              new == bufs'[last'.a]
          IN /\ ~last'.prim /\ heap' = heap
             /\ get_raw_ptr(new) = get_raw_ptr(src)
             /\ new.size_ = src.size_
             /\ new.device_ = src.device_
             /\ new.stream_ = src.stream_
             /\ bufs'[last'.b].size_ = 0
             /\ get_raw_ptr(src) # nullptr => get_raw_ptr(bufs'[last'.b]) # get_raw_ptr(src)]_vars

\* C11: move-construction to a placement the source does not have gives a new
\* buffer in that placement, behind a pointer of its own, with the source's
\* size and contents, and leaves the source empty (size 0).
C11_MoveToOtherPlacement ==
  [][(last'.op = "move_mt" /\ last'.err = "none"
        /\ last'.args.mt # mem_type(bufs[last'.b]))
       => LET src == bufs[last'.b]
              new == bufs'[last'.a]
          IN /\ ~ub'
             /\ mem_type(new) = last'.args.mt
             /\ get_raw_ptr(new) # get_raw_ptr(src)
             /\ new.size_ = src.size_
             /\ src.size_ > 0 => /\ Usable(heap, src.ptr)
                                 /\ Elems(heap', new.ptr, src.size_) = Elems(heap, src.ptr, src.size_)
             /\ bufs'[last'.b].size_ = 0]_vars

\* C12: in a build without the device backend every construction that asks
\* for Device placement (by size, over a pointer, by relocation, by move)
\* signals an error, and no buffer is made in its place.
AsksForDevice ==
  /\ last.op \in {"size", "ptr", "reloc", "move_mt"}
  /\ last.args.mt = DeviceMemory

C12_NoDeviceInCpuBuild ==
  (~gpu_build /\ AsksForDevice) => (last.err # "none" /\ last.a = 0)

\* C13: a ranged copy of zero elements always succeeds, wherever the empty
\* range and the destination offset lie, and leaves the contents of both
\* buffers as they were.
EmptyRange == last'.op = "copy" /\ last'.args.src_begin = last'.args.src_end

Untouched ==
  /\ last'.err = "none"
  /\ Pending' \subseteq Pending
  /\ Pending = {} => (heap' = heap /\ ~ub')

C14_RoundTrip ==
  (nextOp = 3 /\ 2 \notin Pending)
    => /\ ~ub
       /\ Elems(heap, bufs[1].ptr, bufs[1].size_) = Elems(heap, CallerHost, bufs[1].size_)

C14_Witness ==
  /\ nextOp = 3 /\ Pending = {} /\ last.op = "exec"
  /\ bufs[1].idx = 2 /\ bufs[1].size_ = MaxLen /\ bufs[1].stream_ # 0
  /\ heap[bufs[1].ptr].data = heap[CallerHost].data
  /\ heap[bufs[1].ptr].data # Zeros(MaxLen)

\* what the call last made leaves is what copy(dst, src, db, sb, se) leaves
SameAs(db, sb, se) ==
  LET e == copy_call(last'.a, last'.b, db, sb, se) IN
    /\ last'.err = e.err
    /\ bufs' = e.bufs /\ heap' = e.heap /\ queue' = e.queue /\ ub' = e.ub

\* C15: each shorter overload gives the error outcome and the dst state of the
\* five-parameter form with the documented defaults: copy(dst, src) is
\* copy(dst, src, 0, 0, src.size()), copy(dst, src, dst_begin) is
\* copy(dst, src, dst_begin, 0, src.size()), and copy(dst, src, src_begin,
\* src_end) is copy(dst, src, 0, src_begin, src_end).
C15_OverloadsAreDefaults ==
  [][/\ last'.op = "copy_dst_src" => SameAs(0, 0, bufs[last'.b].size_)
     /\ last'.op = "copy_dst_begin" => SameAs(last'.args.dst_begin, 0, bufs[last'.b].size_)
     /\ last'.op = "copy_src_range" => SameAs(0, last'.args.src_begin, last'.args.src_end)]_vars

\* C16: Buffer(other, placement, device) that signals no error gives an owning
\* buffer in that placement, of other's size and contents, on the device given
\* and on other's stream, behind storage of its own, and leaves other as it was.
C16_Relocated ==
  [][(last'.op = "reloc" /\ last'.err = "none")
       => LET other == bufs[last'.b]
              new == bufs'[last'.a]
          IN /\ ~ub'
             /\ owning(new.idx)
             /\ mem_type(new) = last'.args.mt
             /\ new.size_ = other.size_
             /\ new.device_ = last'.args.device
             /\ new.stream_ = other.stream_
             /\ new.ptr # other.ptr
             /\ other.size_ > 0 => /\ Usable(heap, other.ptr)
                                   /\ Elems(heap', new.ptr, other.size_)
                                        = Elems(heap, other.ptr, other.size_)
             /\ bufs'[last'.b] = other
             /\ other.ptr # nullptr => heap'[other.ptr] = heap[other.ptr]]_vars

\* the heap with src[soff, soff + len) written over dst[doff, doff + len)
Written(h, dst, doff, src, soff, len) ==
  [h EXCEPT ![dst].data =
     [i \in 1 .. Len(@) |-> IF doff < i /\ i <= doff + len
                            THEN h[src].data[soff + (i - doff)] ELSE @[i]]]

\* the copy the call has left on a stream, if it has
Enqueued(id) ==
  {op \in UNION {{queue'[s][k] : k \in 1 .. Len(queue'[s])} : s \in Streams} : op.id = id}

\* C17: a ranged copy that signals no error writes src[src_begin, src_end)
\* over dst[dst_begin, dst_begin + len), at once or when the copy it enqueued
\* completes, and changes nothing else: not the other elements, size and
\* placement of dst, not the contents, size, placement and stream of src.
C17_CopyWritesTheRange ==
  [][/\ (last'.op = "copy" /\ last'.err = "none" /\ Pending = {})
          => LET dst == bufs[last'.a]
                 src == bufs[last'.b]
                 a   == last'.args
                 len == a.src_end - a.src_begin
                 w   == Written(heap, dst.ptr, a.dst_begin, src.ptr, a.src_begin, len)
             IN /\ ~ub'
                /\ bufs'[last'.b] = src
                /\ bufs'[last'.a].size_ = dst.size_ /\ bufs'[last'.a].idx = dst.idx
                /\ \/ Enqueued(nextOp) = {} /\ heap' = w
                   \/ /\ heap' = heap
                      /\ \E op \in Enqueued(nextOp) :
                           /\ op.dst = dst.ptr /\ op.doff = a.dst_begin
                           /\ op.src = src.ptr /\ op.soff = a.src_begin /\ op.len = len
     /\ last'.op = "exec"
          => \E s \in Streams :
               /\ queue[s] # << >> /\ queue'[s] = Tail(queue[s])
               /\ LET op == Head(queue[s]) IN
                    /\ ~ub'
                    /\ heap' = Written(heap, op.dst, op.doff, op.src, op.soff, op.len)
                    /\ bufs' = bufs]_vars

\* C18: the copy a relocating constructor makes (relocation, copy-construction,
\* move to another placement), when it touches Device memory, is enqueued on
\* the source's stream, behind the work already there, and that is the stream
\* of the new buffer.
C18_RelocationCopyOnSourceStream ==
  [][(/\ last'.op \in {"reloc", "copyctor", "move_mt"}
      /\ last'.prim /\ last'.err = "none"
      /\ bufs[last'.b].size_ > 0
      /\ Touches(mem_type(bufs'[last'.a]), mem_type(bufs[last'.b])))
       => LET other == bufs[last'.b]
              new == bufs'[last'.a]
              q == queue'[other.stream_]
          IN /\ new.stream_ = other.stream_
             /\ Len(q) = Len(queue[other.stream_]) + 1
             /\ SubSeq(q, 1, Len(q) - 1) = queue[other.stream_]
             /\ q[Len(q)].dst = new.ptr /\ q[Len(q)].src = other.ptr
             /\ q[Len(q)].len = other.size_]_vars

\* the blocks the step has allocated
Allocated == {k \in Blocks : heap[k].owner = "none" /\ heap'[k].owner # "none"}

\* C19: an operation that signals an error leaves its buffers safe to destroy,
\* releases nothing twice and leaks nothing: after a failed set_stream the
\* buffer is on its old stream; after a failed allocation or copy in a
\* relocating constructor what was allocated for the new buffer has been
\* released once and the source has its storage, size and stream.
C19_ErrorsLeaveBuffersSafe ==
  [][/\ \A k \in Blocks :
          LET owners == {i \in Bufs : bufs'[i].st = "live" /\ owning(bufs'[i].idx)
                                                         /\ bufs'[i].ptr = k}
          IN /\ heap'[k].rel <= 1
             /\ heap'[k].owner = "caller" => heap'[k].rel = 0
             /\ (heap'[k].owner = "buffer" /\ heap'[k].rel = 0) => Cardinality(owners) = 1
             /\ heap'[k].rel = 1 => owners = {}
     /\ (last'.op = "set_stream" /\ last'.err # "none")
          => /\ bufs' = bufs /\ heap' = heap
             /\ bufs'[last'.a].stream_ = last'.old
     /\ (last'.op \in {"reloc", "move_mt"} /\ last'.err # "none")
          => /\ bufs' = bufs
             /\ \A k \in Blocks \ Allocated : heap'[k] = heap[k]
             /\ \A k \in Allocated : heap'[k].rel = 1]_vars

C19_Witness ==
  /\ last.op = "move_mt" /\ last.err = "cuda" /\ last.prim
  /\ Live(last.b) /\ Read.size_ > 0 /\ Usable(heap, Read.ptr) /\ Read.stream_ # 0
  /\ \E k \in Blocks : heap[k].owner = "buffer" /\ heap[k].rel = 1

\* C20: get_input signals Internal whenever the collector reports a memory
\* type or device other than the one asked for; otherwise the buffer of the
\* tensor is non-owning over the collected data, has as many elements as were
\* collected (reported bytes / sizeof(T)), the reported placement and device,
\* and the stream of the batch.
C20_GetInput ==
  last.op = "get_input" =>
    LET a == last.args
        wrong == a.mt # a.req_mt \/ a.device # a.req_device
    IN /\ wrong => (last.err = "Internal" /\ last.a = 0)
       /\ ~wrong => /\ last.err = "none"
                    /\ ~owning(Made.idx)
                    /\ get_raw_ptr(Made) = a.ptr
                    /\ Made.size_ * sizeof_T = a.size
                    /\ mem_type(Made) = a.mt
                    /\ Made.device_ = a.device
                    /\ Made.stream_ = a.stream
====
